---- MODULE Spec2Model ----
(***************************************************************************)
(* target-csv: a Singer target that reads SCHEMA / RECORD / STATE messages *)
(* from stdin, validates every record against its stream's schema, appends *)
(* it to "<stream>-<timestamp>.csv", optionally pushes the files over SFTP *)
(* and finally echoes the last pending STATE value on stdout.              *)
(*                                                                         *)
(* Source: src/target_csv.py (persist_messages, emit_state, main).         *)
(*                                                                         *)
(* A CSV file is modelled as the sequence of its rows, a row as the        *)
(* sequence of its cells (strings).  A blank line is the row << >>.  The   *)
(* run only ever reads the first line of a file before it has written to   *)
(* that file, so csv quoting never round-trips inside one run.             *)
(***************************************************************************)
EXTENDS Integers, Sequences, FiniteSets, TLC

VARIABLES
    \* ---- arguments of persist_messages (configuration, fixed for the run)
    destination_path,       \* config 'destination_path'
    fixed_headers,          \* config 'fixed_headers': None or {stream: [col..]}
    sftp_host, sftp_username, sftp_password, sftp_port,
    sftp_public_key, sftp_public_key_format,
    \* ---- locals of persist_messages
    state,                  \* pending checkpoint value (None or a STATE value)
    schemas,                \* dict stream -> schema
    stream_2_filenames,     \* dict stream -> filename, in insertion order
    key_properties,         \* dict stream -> key_properties
    headers,                \* dict stream -> header list
    validators,             \* dict stream -> Draft4Validator
    \* ---- the environment
    files,                  \* local file system: path -> [exists, rows]
    stdout,                 \* lines written to sys.stdout
    net,                    \* SSH/SFTP operations performed, in order
    remote,                 \* remote paths written by sftp.put
    \* ---- control and observation
    pc,                     \* "loop", "return", "done", "failed"
    error,                  \* the exception that ended the run ("" if none)
    input,                  \* the lines consumed from stdin so far
    files0,                 \* the file system as it was when the run started
    limit,                  \* the number of lines stdin holds at most
    written                 \* log of csv writer calls (writeheader / writerow)

vars == << destination_path, fixed_headers, sftp_host, sftp_username,
           sftp_password, sftp_port, sftp_public_key, sftp_public_key_format,
           state, schemas, stream_2_filenames, key_properties, headers,
           validators, files, stdout, net, remote, pc, error, input, files0,
           limit, written >>

config_vars == << destination_path, fixed_headers, sftp_host, sftp_username,
                  sftp_password, sftp_port, sftp_public_key,
                  sftp_public_key_format, files0, limit >>

-----------------------------------------------------------------------------
(* Bounds and input alphabets *)

\* longest input (number of stdin lines) explored
MaxMsgs == 3

Streams == {"s", "t"}
Fields == {"a", "b"}

\* Python's None
None == "None"

-----------------------------------------------------------------------------
(* Ordered dicts (Python dict): sequences of <<key, value>> with distinct keys *)

Keys(d) == [i \in 1..Len(d) |-> d[i][1]]

Values(d) == [i \in 1..Len(d) |-> d[i][2]]

KeySet(d) == {d[i][1] : i \in 1..Len(d)}

\* dict.get(key, default)
Get(d, k, default) ==
    IF k \in KeySet(d)
    THEN d[CHOOSE i \in 1..Len(d) : d[i][1] = k][2]
    ELSE default

\* d[k] = v : an existing key keeps its position, a new key goes last
SetItem(d, k, v) ==
    IF k \in KeySet(d)
    THEN [i \in 1..Len(d) |-> IF d[i][1] = k THEN <<k, v>> ELSE d[i]]
    ELSE Append(d, <<k, v>>)

\* a variant that keeps the value a key already has (dict.setdefault)
PutIfAbsent(f, k, v) == IF k \in DOMAIN f THEN f ELSE (k :> v) @@ f

\* dicts whose order is never observed are functions on their key set
Put(f, k, v) == (k :> v) @@ f

-----------------------------------------------------------------------------
(* The wire format: stdin lines, already split into their JSON members *)

\* now = datetime.now().strftime('%Y%m%dT%H%M%S'), computed once per run
now == "20240101T000000"

\* the value of field f in the record on input line n: values are opaque to
\* the program, so each record is given values that identify it
Cell(f, n) == f \o ToString(n)

\* the records line n may carry: ordered mappings field -> value with one or
\* two fields, in either order
RecordSet(n) ==
    {<< <<f, Cell(f, n)>> >> : f \in Fields}
    \cup {<< <<fg[1], Cell(fg[1], n)>>, <<fg[2], Cell(fg[2], n)>> >> :
               fg \in {x \in Fields \X Fields : x[1] # x[2]}}

\* a JSON schema, reduced to its "required" member
\* and the key_properties declared with it
SchemaDecls ==
    { [schema |-> [required |-> {}], key_properties |-> << >>],
      [schema |-> [required |-> {"a"}], key_properties |-> <<"a">>] }

\* the JSON text of a STATE message's "value" member
StateValues == {"null", "{\"bookmark\":42}", "{\"bookmark\":7}"}

RecordMessages(n) ==
    {[type |-> "RECORD", stream |-> s, record |-> r] : s \in Streams, r \in RecordSet(n)}

StateMessages == {[type |-> "STATE", value |-> v] : v \in StateValues}

SchemaMessages ==
    {[type |-> "SCHEMA", stream |-> s, schema |-> d.schema,
      key_properties |-> d.key_properties] : s \in Streams, d \in SchemaDecls}

\* a well-formed message whose type falls through to the final else branch
OtherMessages == {[type |-> "ACTIVATE_VERSION"]}

\* a line that is not JSON: singer.parse_message raises JSONDecodeError
MalformedLines == {[type |-> "<malformed>"]}

\* json.loads of a STATE value: JSON null is Python None, an object a dict
\* (a dict is written here as its Python repr)
JsonLoads(text) ==
    CASE text = "null" -> None
      [] text \in {"{\"bookmark\":42}", "{\"bookmark\": 42}"} -> "{'bookmark': 42}"
      [] text \in {"{\"bookmark\":7}", "{\"bookmark\": 7}"} -> "{'bookmark': 7}"

\* json.dumps(state) in emit_state
JsonDumps(value) ==
    CASE value = None -> "null"
      [] value = "{'bookmark': 42}" -> "{\"bookmark\": 42}"
      [] value = "{'bookmark': 7}" -> "{\"bookmark\": 7}"

-----------------------------------------------------------------------------
(* Schema registry helpers *)

\* Draft4Validator(schema)
Draft4Validator(schema) == [schema |-> schema]

\* a variant that accepts every record
ValidatesAnything(validator, record) == TRUE

\* validator.validate(record) does not raise
Validates(validator, record) == validator.schema.required \subseteq KeySet(record)

-----------------------------------------------------------------------------
(* File names and the file system *)

\* filename = o['stream'] + '-' + now + '.csv'
Filename(stream) == stream \o "-" \o now \o ".csv"

Home == "/home/user"

\* os.path.expanduser(os.path.join(destination_path, filename))
LocalPath(dest, filename) ==
    [dir |-> IF dest = "~" THEN Home ELSE dest, name |-> filename]

DestinationPaths == {"", "out", "~"}

Paths ==
    {LocalPath(d, Filename(s)) : d \in DestinationPaths, s \in Streams}

NoFile == [exists |-> FALSE, rows |-> << >>]

\* file_is_empty = (not os.path.isfile(filename)) or os.stat(filename).st_size == 0
FileIsEmpty(fs, path) == (~fs[path].exists) \/ fs[path].rows = << >>

\* first_line = next(csv.reader(csvfile)) on a non-empty file
FirstLine(fs, path) == fs[path].rows[1]

\* a variant that opens the file with mode 'w'
AppendRowsTruncating(fs, path, rows) ==
    [fs EXCEPT ![path] = [exists |-> TRUE, rows |-> rows]]

\* open(filename, 'a') followed by the writer calls in `rows`
AppendRows(fs, path, rows) ==
    [fs EXCEPT ![path] = [exists |-> TRUE, rows |-> @.rows \o rows]]

\* csv.DictWriter(..., extrasaction='ignore')._dict_to_list: one cell per
\* header column, '' for a column the record lacks, other fields ignored
DictToList(fieldnames, rowdict) ==
    [i \in 1..Len(fieldnames) |-> Get(rowdict, fieldnames[i], "")]

-----------------------------------------------------------------------------
(* Header resolution, lines 77-89 *)

\* fixed_headers is not None and o['stream'] in fixed_headers
\* (the config value is [is_none |-> TRUE] or [is_none |-> FALSE, dict |-> d])
InFixedHeaders(fh, stream) == (~fh.is_none) /\ stream \in DOMAIN fh.dict

\* TRUE iff the run reads the destination file's first line for this record
ReadsFirstLine(hdrs, fh, stream, file_is_empty) ==
    ~InFixedHeaders(fh, stream) /\ stream \notin DOMAIN hdrs /\ ~file_is_empty

\* a variant that never looks at an existing file
ResolveHeadersIgnoreFile(hdrs, fh, stream, record, file_is_empty, first_line) ==
    IF InFixedHeaders(fh, stream)
    THEN IF stream \notin DOMAIN hdrs
         THEN Put(hdrs, stream, fh.dict[stream])
         ELSE hdrs
    ELSE Put(hdrs, stream, Keys(record))

\* a variant that takes no notice of fixed_headers
ResolveHeadersNoFixed(hdrs, fh, stream, record, file_is_empty, first_line) ==
    IF stream \notin DOMAIN hdrs /\ ~file_is_empty
    THEN Put(hdrs, stream, IF first_line # << >> THEN first_line ELSE Keys(record))
    ELSE Put(hdrs, stream, Keys(record))

\* the headers dict after lines 77-89
ResolveHeaders(hdrs, fh, stream, record, file_is_empty, first_line) ==
    IF InFixedHeaders(fh, stream)
    THEN IF stream \notin DOMAIN hdrs
         THEN Put(hdrs, stream, fh.dict[stream])
         ELSE hdrs
    ELSE IF stream \notin DOMAIN hdrs /\ ~file_is_empty
         THEN Put(hdrs, stream, IF first_line # << >> THEN first_line ELSE Keys(record))
         ELSE Put(hdrs, stream, Keys(record))

-----------------------------------------------------------------------------
(* Initial states: the configuration and the file system the run starts in *)

\* a destination file as a previous run (or anything else) may have left it
ZeroBytes == [exists |-> TRUE, rows |-> << >>]

BlankFirstLine == [exists |-> TRUE, rows |-> << << >>, <<"x">> >>]

WithHeader == [exists |-> TRUE, rows |-> << <<"b", "c">>, <<"b0", "c0">> >>]

InitialFiles ==
    {c \in [Streams -> {NoFile, ZeroBytes, BlankFirstLine, WithHeader}] :
        c["t"] \in {NoFile, WithHeader}}

FixedHeadersConfigs ==
    { [is_none |-> TRUE],
      [is_none |-> FALSE, dict |-> ("s" :> <<"c", "a">>)] }

SftpNone ==
    [host |-> None, username |-> None, password |-> None, port |-> None,
     public_key |-> None, public_key_format |-> None]

SftpAll ==
    [host |-> "h", username |-> "u", password |-> "p", port |-> "22",
     public_key |-> "k", public_key_format |-> "ssh-rsa"]

InitWith(dests, fixed, sftps, initial) ==
    /\ destination_path \in dests
    /\ fixed_headers \in fixed
    /\ \E c \in sftps :
          /\ sftp_host = c.host
          /\ sftp_username = c.username
          /\ sftp_password = c.password
          /\ sftp_port = c.port
          /\ sftp_public_key = c.public_key
          /\ sftp_public_key_format = c.public_key_format
    /\ \E content \in initial :
          files = [p \in Paths |->
                     IF p.dir = LocalPath(destination_path, "").dir
                     THEN content[CHOOSE s \in Streams : Filename(s) = p.name]
                     ELSE NoFile]
    /\ files0 = files
    /\ limit = MaxMsgs
    /\ state = None
    /\ schemas = << >>
    /\ stream_2_filenames = << >>
    /\ key_properties = << >>
    /\ headers = << >>
    /\ validators = << >>
    /\ stdout = << >>
    /\ net = << >>
    /\ remote = {}
    /\ pc = "loop"
    /\ error = ""
    /\ input = << >>
    /\ written = << >>

Init == InitWith({""}, FixedHeadersConfigs, {SftpNone, SftpAll}, InitialFiles)

-----------------------------------------------------------------------------
(* The message loop, lines 55-113: one action per message type *)

\* an uncaught exception leaves persist_messages and main
Raise(exc) == pc' = "failed" /\ error' = exc

Continue == pc' = "loop" /\ error' = error

env_unchanged == UNCHANGED << stdout, net, remote >>

\* line 63: the stream has a registered schema
KnownStream(sch, stream) == stream \in DOMAIN sch

\* a variant that logs the record and moves on to the next message
UnknownStreamSkipped == Continue

\* lines 64-65: raise Exception("A record for stream ... before a corresponding schema")
UnknownStreamError == Raise("UnknownStream")

\* a variant that leaves the pending checkpoint alone
StateKeptAfterRecord(st) == st

\* line 102: a processed record clears the pending checkpoint
StateAfterRecord(st) == None

\* a variant that never writes a header row
WriterCallsNoHeader(stream, path, fieldnames, record, file_is_empty) ==
    << [stream |-> stream, path |-> path, call |-> "writerow",
        fieldnames |-> fieldnames, row |-> DictToList(fieldnames, record)] >>

\* a variant that writes a header row before every record
WriterCallsHeaderEveryTime(stream, path, fieldnames, record, file_is_empty) ==
    << [stream |-> stream, path |-> path, call |-> "writeheader",
        fieldnames |-> fieldnames, row |-> fieldnames],
       [stream |-> stream, path |-> path, call |-> "writerow",
        fieldnames |-> fieldnames, row |-> DictToList(fieldnames, record)] >>

\* lines 97-100: the writer calls for one record, as log entries
WriterCalls(stream, path, fieldnames, record, file_is_empty) ==
    (IF file_is_empty
     THEN << [stream |-> stream, path |-> path, call |-> "writeheader",
              fieldnames |-> fieldnames, row |-> fieldnames] >>
     ELSE << >>)
    \o << [stream |-> stream, path |-> path, call |-> "writerow",
           fieldnames |-> fieldnames, row |-> DictToList(fieldnames, record)] >>

RowsOf(calls) == [i \in 1..Len(calls) |-> calls[i].row]

IOPoints == {"none", "open_read", "open_append"}

\* RECORD, lines 62-102.  io names the open() call that raises OSError, if any.
HandleRecord(m, io) ==
    /\ pc = "loop"
    /\ Len(input) < limit
    /\ input' = Append(input, m)
    /\ UNCHANGED config_vars
    /\ env_unchanged
    /\ UNCHANGED << schemas, key_properties, validators >>
    /\ LET stream == m.stream
           record == m.record
           filename == Filename(stream)
           path == LocalPath(destination_path, filename)
           file_is_empty == FileIsEmpty(files, path)
           reads == ReadsFirstLine(headers, fixed_headers, stream, file_is_empty)
           first_line == IF reads THEN FirstLine(files, path) ELSE << >>
           hdrs == ResolveHeaders(headers, fixed_headers, stream, record,
                                  file_is_empty, first_line)
           calls == WriterCalls(stream, path, hdrs[stream], record, file_is_empty)
       IN  IF ~KnownStream(schemas, stream)
           THEN /\ io = "none"
                /\ UnknownStreamError
                /\ UNCHANGED << state, stream_2_filenames, headers, files, written >>
           ELSE IF ~Validates(validators[stream], record)
           THEN /\ io = "none"
                /\ Raise("ValidationError")
                /\ UNCHANGED << state, stream_2_filenames, headers, files, written >>
           ELSE IF io = "open_read"
           THEN /\ reads
                /\ Raise("OSError")
                /\ stream_2_filenames' = SetItem(stream_2_filenames, stream, filename)
                /\ UNCHANGED << state, headers, files, written >>
           ELSE IF io = "open_append"
           THEN /\ Raise("OSError")
                /\ stream_2_filenames' = SetItem(stream_2_filenames, stream, filename)
                /\ headers' = hdrs
                /\ UNCHANGED << state, files, written >>
           ELSE /\ Continue
                /\ stream_2_filenames' = SetItem(stream_2_filenames, stream, filename)
                /\ headers' = hdrs
                /\ files' = AppendRows(files, path, RowsOf(calls))
                /\ written' = written \o calls
                /\ state' = StateAfterRecord(state)

\* STATE, lines 103-105
HandleState(m) ==
    /\ pc = "loop"
    /\ Len(input) < limit
    /\ input' = Append(input, m)
    /\ state' = JsonLoads(m.value)
    /\ Continue
    /\ UNCHANGED config_vars
    /\ env_unchanged
    /\ UNCHANGED << schemas, stream_2_filenames, key_properties, headers,
                    validators, files, written >>

\* SCHEMA, lines 106-110
HandleSchema(m) ==
    /\ pc = "loop"
    /\ Len(input) < limit
    /\ input' = Append(input, m)
    /\ schemas' = Put(schemas, m.stream, m.schema)
    /\ validators' = Put(validators, m.stream, Draft4Validator(m.schema))
    /\ key_properties' = Put(key_properties, m.stream, m.key_properties)
    /\ Continue
    /\ UNCHANGED config_vars
    /\ env_unchanged
    /\ UNCHANGED << state, stream_2_filenames, headers, files, written >>

\* any other message type, lines 111-113: a warning is logged
HandleOther(m) ==
    /\ pc = "loop"
    /\ Len(input) < limit
    /\ input' = Append(input, m)
    /\ Continue
    /\ UNCHANGED config_vars
    /\ env_unchanged
    /\ UNCHANGED << state, schemas, stream_2_filenames, key_properties, headers,
                    validators, files, written >>

\* a line that does not parse, lines 56-60: logged and re-raised
HandleMalformed(m) ==
    /\ pc = "loop"
    /\ Len(input) < limit
    /\ input' = Append(input, m)
    /\ Raise("JSONDecodeError")
    /\ UNCHANGED config_vars
    /\ env_unchanged
    /\ UNCHANGED << state, schemas, stream_2_filenames, key_properties, headers,
                    validators, files, written >>

-----------------------------------------------------------------------------
(* End of input: the SFTP push (lines 114-133), return and emit_state *)

\* Python truthiness of a configuration value
Truthy(v) == v \notin {None, ""}

\* a variant that forgets the last of the five tests
TransferEnabledFourOnly ==
    /\ Truthy(sftp_host)
    /\ Truthy(sftp_password)
    /\ Truthy(sftp_username)
    /\ Truthy(sftp_public_key)

\* a variant that also asks for sftp_port
TransferEnabledWithPort ==
    /\ Truthy(sftp_host)
    /\ Truthy(sftp_password)
    /\ Truthy(sftp_username)
    /\ Truthy(sftp_port)
    /\ Truthy(sftp_public_key)
    /\ Truthy(sftp_public_key_format)

\* line 114
TransferEnabled ==
    /\ Truthy(sftp_host)
    /\ Truthy(sftp_password)
    /\ Truthy(sftp_username)
    /\ Truthy(sftp_public_key)
    /\ Truthy(sftp_public_key_format)

\* the files the loop at line 124 iterates over, in order
Manifest == Values(stream_2_filenames)

\* sftp.put(filename, filename): the local path is relative to the working
\* directory, the remote path is the same string
PutLocalPath(filename) == LocalPath("", filename)

\* a variant whose except branch closes the client but not the sftp session
FailedSessionLeaks(k) ==
    IF k = 0
    THEN << [op |-> "connect", ok |-> FALSE, file |-> ""],
            [op |-> "client.close", ok |-> TRUE, file |-> ""] >>
    ELSE IF k = 1
    THEN << [op |-> "connect", ok |-> TRUE, file |-> ""],
            [op |-> "open_sftp", ok |-> FALSE, file |-> ""],
            [op |-> "client.close", ok |-> TRUE, file |-> ""] >>
    ELSE << [op |-> "connect", ok |-> TRUE, file |-> ""],
            [op |-> "open_sftp", ok |-> TRUE, file |-> ""] >>
         \o [i \in 1..(k - 1) |->
               [op |-> "put", ok |-> (i < k - 1), file |-> Manifest[i]]]
         \o << [op |-> "client.close", ok |-> TRUE, file |-> ""] >>

\* operations of a session that fails at step k:
\* k = 0: client.connect raises; k = 1: client.open_sftp raises;
\* k = 1 + i: the i-th sftp.put raises
FailedSession(k) ==
    IF k = 0
    THEN << [op |-> "connect", ok |-> FALSE, file |-> ""],
            [op |-> "client.close", ok |-> TRUE, file |-> ""] >>
    ELSE IF k = 1
    THEN << [op |-> "connect", ok |-> TRUE, file |-> ""],
            [op |-> "open_sftp", ok |-> FALSE, file |-> ""],
            [op |-> "client.close", ok |-> TRUE, file |-> ""] >>
    ELSE << [op |-> "connect", ok |-> TRUE, file |-> ""],
            [op |-> "open_sftp", ok |-> TRUE, file |-> ""] >>
         \o [i \in 1..(k - 1) |->
               [op |-> "put", ok |-> (i < k - 1), file |-> Manifest[i]]]
         \o << [op |-> "sftp.close", ok |-> TRUE, file |-> ""],
               [op |-> "client.close", ok |-> TRUE, file |-> ""] >>

CompleteSession ==
    << [op |-> "connect", ok |-> TRUE, file |-> ""],
       [op |-> "open_sftp", ok |-> TRUE, file |-> ""] >>
    \o [i \in 1..Len(Manifest) |-> [op |-> "put", ok |-> TRUE, file |-> Manifest[i]]]
    \o << [op |-> "sftp.close", ok |-> TRUE, file |-> ""],
          [op |-> "client.close", ok |-> TRUE, file |-> ""] >>

Copied(ops) == {ops[i].file : i \in {j \in 1..Len(ops) : ops[j].op = "put" /\ ops[j].ok}}

\* a put can only succeed if the local file it names exists
PutCanSucceed(i) == files[PutLocalPath(Manifest[i])].exists

loop_unchanged ==
    UNCHANGED << state, schemas, stream_2_filenames, key_properties, headers,
                 validators, files, written, input >>

\* stdin is exhausted and transfer is not configured: line 114 is false
SkipTransfer ==
    /\ pc = "loop"
    /\ ~TransferEnabled
    /\ pc' = "return"
    /\ UNCHANGED << error, stdout, net, remote >>
    /\ UNCHANGED config_vars
    /\ loop_unchanged

\* stdin is exhausted and the session runs to completion, lines 115-133
Transfer ==
    /\ pc = "loop"
    /\ TransferEnabled
    /\ \A i \in 1..Len(Manifest) : PutCanSucceed(i)
    /\ net' = net \o CompleteSession
    /\ remote' = remote \cup Copied(CompleteSession)
    /\ pc' = "return"
    /\ UNCHANGED << error, stdout >>
    /\ UNCHANGED config_vars
    /\ loop_unchanged

\* stdin is exhausted and the session fails at step k, lines 115-130
TransferFails(k) ==
    /\ pc = "loop"
    /\ TransferEnabled
    /\ k \in 0..(Len(Manifest) + 1)
    /\ \A i \in 1..(k - 2) : PutCanSucceed(i)
    /\ net' = net \o FailedSession(k)
    /\ remote' = remote \cup Copied(FailedSession(k))
    /\ Raise("TransferError")
    /\ UNCHANGED stdout
    /\ UNCHANGED config_vars
    /\ loop_unchanged

\* emit_state, lines 23-28
EmitLines(st) == IF st # None THEN << JsonDumps(st) >> ELSE << >>

\* a variant that emits the checkpoint in a finally block
EmitStateInFinally ==
    /\ pc \in {"return", "failed"}
    /\ stdout' = stdout \o EmitLines(state)
    /\ pc' = "done"
    /\ UNCHANGED << error, net, remote >>
    /\ UNCHANGED config_vars
    /\ loop_unchanged

\* a variant that emits the checkpoint as soon as stdin is exhausted,
\* before the files are pushed
EmitStateBeforeTransfer ==
    /\ pc = "loop"
    /\ stdout' = stdout \o EmitLines(state)
    /\ pc' = "done"
    /\ UNCHANGED << error, net, remote >>
    /\ UNCHANGED config_vars
    /\ loop_unchanged

\* persist_messages returns state (line 134); main emits it (lines 187-188)
EmitState ==
    /\ pc = "return"
    /\ stdout' = stdout \o EmitLines(state)
    /\ pc' = "done"
    /\ UNCHANGED << error, net, remote >>
    /\ UNCHANGED config_vars
    /\ loop_unchanged

-----------------------------------------------------------------------------

Next ==
    \/ \E m \in RecordMessages(Len(input) + 1), io \in IOPoints : HandleRecord(m, io)
    \/ \E m \in StateMessages : HandleState(m)
    \/ \E m \in SchemaMessages : HandleSchema(m)
    \/ \E m \in OtherMessages : HandleOther(m)
    \/ \E m \in MalformedLines : HandleMalformed(m)
    \/ SkipTransfer
    \/ Transfer
    \/ \E k \in 0..(MaxMsgs + 1) : TransferFails(k)
    \/ EmitState

Spec == Init /\ [][Next]_vars

-----------------------------------------------------------------------------
(* Runs that exercise the SFTP push: few message shapes, every transfer    *)
(* configuration, every destination_path, one more input line              *)

\* a record with the single field a
TransferRecordMessages(n) ==
    {[type |-> "RECORD", stream |-> s, record |-> << <<"a", Cell("a", n)>> >>] :
        s \in Streams}

TransferSchemaMessages ==
    {[type |-> "SCHEMA", stream |-> s, schema |-> [required |-> {}],
      key_properties |-> << >>] : s \in Streams}

TransferStateMessages == {[type |-> "STATE", value |-> "{\"bookmark\":42}"]}

\* a configuration value is missing (None), empty, or a non-empty string
CredValues == {None, "", "x"}

SftpConfigs ==
    [host : CredValues, username : CredValues, password : CredValues,
     port : {None, "22"}, public_key : CredValues, public_key_format : CredValues]

\* files that may already lie in the working directory when the run starts
CwdFiles == [Streams -> {NoFile, WithHeader}]

InitEnv(dests, sftps, cwd, lim) ==
    /\ destination_path \in dests
    /\ fixed_headers = [is_none |-> TRUE]
    /\ \E c \in sftps :
          /\ sftp_host = c.host
          /\ sftp_username = c.username
          /\ sftp_password = c.password
          /\ sftp_port = c.port
          /\ sftp_public_key = c.public_key
          /\ sftp_public_key_format = c.public_key_format
    /\ \E content \in cwd :
          files = [p \in Paths |->
                     IF p.dir = ""
                     THEN content[CHOOSE s \in Streams : Filename(s) = p.name]
                     ELSE NoFile]
    /\ files0 = files
    /\ limit = lim
    /\ state = None
    /\ schemas = << >>
    /\ stream_2_filenames = << >>
    /\ key_properties = << >>
    /\ headers = << >>
    /\ validators = << >>
    /\ stdout = << >>
    /\ net = << >>
    /\ remote = {}
    /\ pc = "loop"
    /\ error = ""
    /\ input = << >>
    /\ written = << >>

NextTransfer ==
    \/ \E m \in TransferRecordMessages(Len(input) + 1) : HandleRecord(m, "none")
    \/ \E m \in TransferStateMessages : HandleState(m)
    \/ \E m \in TransferSchemaMessages : HandleSchema(m)
    \/ SkipTransfer
    \/ Transfer
    \/ \E k \in 0..(MaxMsgs + 2) : TransferFails(k)
    \/ EmitState

\* every combination of the sftp options, default destination
InitGating == InitEnv({""}, SftpConfigs, {[s \in Streams |-> NoFile]}, MaxMsgs)

SpecGating == InitGating /\ [][NextTransfer]_vars

\* transfer configured or not, every destination_path, inputs one line longer
InitTransfer == InitEnv(DestinationPaths, {SftpNone, SftpAll}, CwdFiles, MaxMsgs + 1)

SpecTransfer == InitTransfer /\ [][NextTransfer]_vars

-----------------------------------------------------------------------------
(* Reading the input history *)

IsRecord(inp, i) == inp[i].type = "RECORD"

IsState(inp, i) == inp[i].type = "STATE"

IsSchemaFor(inp, j, s) == inp[j].type = "SCHEMA" /\ inp[j].stream = s

SchemaIndexes(inp, i, s) == {j \in 1..(i - 1) : IsSchemaFor(inp, j, s)}

\* the schema of the most recent SCHEMA message for s before line i
LatestSchema(inp, i, s) ==
    inp[CHOOSE j \in SchemaIndexes(inp, i, s) :
            \A k \in SchemaIndexes(inp, i, s) : k <= j].schema

\* line i is a RECORD whose stream has no SCHEMA on an earlier line
RecordBeforeSchema(inp, i) ==
    IsRecord(inp, i) /\ SchemaIndexes(inp, i, inp[i].stream) = {}

\* line i is a RECORD that violates the latest schema of its stream
RecordViolatesSchema(inp, i) ==
    /\ IsRecord(inp, i)
    /\ SchemaIndexes(inp, i, inp[i].stream) # {}
    /\ ~(LatestSchema(inp, i, inp[i].stream).required \subseteq KeySet(inp[i].record))

\* the cells a row written for the record on line i could hold
CellsOfLine(i) == {Cell(f, i) : f \in Fields}

\* no file holds a row with a value of the record on line i
NoRowForLine(i) ==
    \A p \in Paths : \A k \in 1..Len(files[p].rows) :
        \A c \in 1..Len(files[p].rows[k]) : files[p].rows[k][c] \notin CellsOfLine(i)

\* this step consumed one more input line
Consumes == Len(input') = Len(input) + 1

-----------------------------------------------------------------------------
(* C1 *)

\* C1: a RECORD whose stream has had no SCHEMA earlier in the input (whatever
\* was declared for other streams) is the last line the run consumes: the run
\* has failed with the unknown-stream error, and no file holds a row for it.
C1_RecordBeforeSchemaIsFatal ==
    \A i \in 1..Len(input) :
        RecordBeforeSchema(input, i) =>
            /\ i = Len(input)
            /\ pc = "failed"
            /\ error = "UnknownStream"
            /\ NoRowForLine(i)
            /\ stdout = << >>

\* a record of one stream arrives after only the other stream was declared
C1_Witness ==
    /\ Len(input) = 2
    /\ input[1].type = "SCHEMA"
    /\ RecordBeforeSchema(input, 2)
    /\ pc = "failed"

-----------------------------------------------------------------------------
(* C3 *)

\* some RECORD comes after every STATE of the input
RecordAfterLastState(inp) ==
    \E i \in 1..Len(inp) :
        IsRecord(inp, i) /\ \A j \in (i + 1)..Len(inp) : ~IsState(inp, j)

\* C3: when the input ends normally and a RECORD was processed after the last
\* STATE, persist_messages returns None and nothing is written to stdout.
C3_CheckpointSuppressed ==
    (pc \in {"return", "done"} /\ RecordAfterLastState(input)) =>
        (state = None /\ stdout = << >>)

\* a run that finished after STATE(non-null) ... RECORD
C3_Witness ==
    /\ pc = "done"
    /\ \E j \in 1..Len(input) : \E i \in (j + 1)..Len(input) :
          /\ IsState(input, j) /\ input[j].value # "null"
          /\ IsRecord(input, i)
          /\ \A k \in (j + 1)..Len(input) : ~IsState(input, k)
    /\ stdout = << >>

-----------------------------------------------------------------------------
(* C5 *)

\* C5: the step that consumes a RECORD violating the latest schema of its
\* stream ends the run with the validation error and changes nothing else:
\* no file, header list, manifest entry, writer call or output; and such a
\* record is always the last line consumed.
C5_ValidationFailureIsFatal ==
    /\ [][ (Consumes /\ RecordViolatesSchema(input', Len(input'))) =>
              /\ pc' = "failed"
              /\ error' = "ValidationError"
              /\ UNCHANGED << files, headers, stream_2_filenames, written,
                              stdout, net, remote, state >> ]_vars
    /\ [](\A i \in 1..Len(input) :
              RecordViolatesSchema(input, i) => (i = Len(input) /\ pc = "failed"))

\* a record lacking the required field arrives after its schema
C5_Witness ==
    /\ Len(input) >= 2
    /\ RecordViolatesSchema(input, Len(input))
    /\ pc = "failed"
    /\ error = "ValidationError"

-----------------------------------------------------------------------------
(* C2 *)

\* C2: every writer call for a stream in one run uses one and the same header
\* list, whatever fields the later records carry.
C2_OneHeaderListPerStream ==
    \A i \in 1..Len(written) : \A j \in 1..Len(written) :
        written[i].stream = written[j].stream =>
            written[i].fieldnames = written[j].fieldnames

-----------------------------------------------------------------------------
(* C4 *)

\* line k is the last STATE and no RECORD follows it
LastStateAfterLastRecord(inp, k) ==
    /\ IsState(inp, k)
    /\ \A j \in (k + 1)..Len(inp) : ~IsState(inp, j) /\ ~IsRecord(inp, j)

\* C4: a run that ends normally with its last STATE after its last RECORD
\* has written exactly one line, which decodes to that STATE's value; no run
\* writes more than one line.
C4_CheckpointEmitted ==
    /\ Len(stdout) <= 1
    /\ \A k \in 1..Len(input) :
          (pc = "done" /\ LastStateAfterLastRecord(input, k)) =>
              /\ Len(stdout) = 1
              /\ JsonLoads(stdout[1]) = JsonLoads(input[k].value)

-----------------------------------------------------------------------------
(* C6, C7 *)

\* line i is the first RECORD of its stream
FirstRecordOf(inp, i) ==
    /\ IsRecord(inp, i)
    /\ \A j \in 1..(i - 1) : ~(IsRecord(inp, j) /\ inp[j].stream = inp[i].stream)

HasFixedHeaders(stream) ==
    (~fixed_headers.is_none) /\ stream \in DOMAIN fixed_headers.dict

\* the row that holds, for each column of H in order, the record's value for
\* that column, or the empty cell if the record has no such field
IsRowFor(row, H, record) ==
    /\ Len(row) = Len(H)
    /\ \A k \in 1..Len(H) :
          \/ \E i \in 1..Len(record) : record[i][1] = H[k] /\ row[k] = record[i][2]
          \/ (\A i \in 1..Len(record) : record[i][1] # H[k]) /\ row[k] = ""

\* this step processed, without error, the first RECORD of a stream that has
\* no fixed_headers entry
FirstRecordStep ==
    /\ Consumes
    /\ pc' = "loop"
    /\ FirstRecordOf(input', Len(input'))
    /\ ~HasFixedHeaders(input'[Len(input')].stream)

\* C6: when the first RECORD of a stream without fixed_headers finds its file
\* existing and non-empty, the adopted header list is the file's first line
\* (the record's field names if that line is blank), the file grows by exactly
\* one row holding the values of those columns in that order, and nothing
\* else in the file changes.
C6_HeaderStability ==
    [][ FirstRecordStep =>
          LET m == input'[Len(input')]
              p == LocalPath(destination_path, Filename(m.stream))
              H == IF files[p].rows[1] # << >>
                   THEN files[p].rows[1]
                   ELSE [i \in 1..Len(m.record) |-> m.record[i][1]]
          IN  (files[p].exists /\ files[p].rows # << >>) =>
                 /\ headers'[m.stream] = H
                 /\ files[p] = files0[p]
                 /\ files'[p].exists
                 /\ Len(files'[p].rows) = Len(files[p].rows) + 1
                 /\ SubSeq(files'[p].rows, 1, Len(files[p].rows)) = files[p].rows
                 /\ IsRowFor(files'[p].rows[Len(files'[p].rows)], H, m.record)
                 /\ \A q \in Paths \ {p} : files'[q] = files[q] ]_vars

\* a record with fields a and b was appended under the existing header b,c
C6_Witness ==
    /\ Len(input) >= 2
    /\ pc = "loop"
    /\ FirstRecordOf(input, Len(input))
    /\ input[Len(input)].stream = "s"
    /\ Len(input[Len(input)].record) = 2
    /\ fixed_headers.is_none
    /\ files0[LocalPath(destination_path, Filename("s"))] = WithHeader
    /\ Len(files[LocalPath(destination_path, Filename("s"))].rows) = 3

\* C7: when the first RECORD of a stream without fixed_headers finds its file
\* missing or empty, the file afterwards holds exactly two rows: the record's
\* field names in order, then its values in the same order.
C7_FreshFileHeaders ==
    [][ FirstRecordStep =>
          LET m == input'[Len(input')]
              p == LocalPath(destination_path, Filename(m.stream))
          IN  ((~files[p].exists) \/ files[p].rows = << >>) =>
                 /\ files'[p].exists
                 /\ files'[p].rows =
                       << [i \in 1..Len(m.record) |-> m.record[i][1]],
                          [i \in 1..Len(m.record) |-> m.record[i][2]] >> ]_vars

\* a two-field record was the first written to a missing or empty file
C7_Witness ==
    /\ Len(input) >= 2
    /\ pc = "loop"
    /\ FirstRecordOf(input, Len(input))
    /\ ~HasFixedHeaders(input[Len(input)].stream)
    /\ Len(input[Len(input)].record) = 2
    /\ LET p == LocalPath(destination_path, Filename(input[Len(input)].stream))
       IN  files0[p].rows = << >> /\ Len(files[p].rows) = 2

-----------------------------------------------------------------------------
(* C8 *)

CallsTo(p) == SelectSeq(written, LAMBDA e : e.path = p)

HeaderCallIndexes(calls) == {i \in 1..Len(calls) : calls[i].call = "writeheader"}

\* C8: a file receives a header row in this run iff it was missing or empty
\* when the run first wrote to it; the header row is then the first thing
\* written to it and is written once.  The file is what it was plus the rows
\* of the writer calls, in order.
C8_HeaderRowWrittenOnce ==
    \A p \in Paths :
        LET calls == CallsTo(p)
            was_empty == (~files0[p].exists) \/ files0[p].rows = << >>
        IN  /\ (calls # << >> /\ was_empty) => HeaderCallIndexes(calls) = {1}
            /\ (~was_empty) => HeaderCallIndexes(calls) = {}
            /\ files[p].rows =
                  files0[p].rows \o [i \in 1..Len(calls) |-> calls[i].row]

\* two records went to a file that started empty: a header row and two rows
C8_Witness ==
    \E p \in Paths :
        /\ Len(CallsTo(p)) = 3
        /\ files0[p].rows = << >>
        /\ Len(files[p].rows) = 3

-----------------------------------------------------------------------------
(* C9 *)

RecordsOf(inp, s) ==
    {inp[i].record : i \in {j \in 1..Len(inp) : IsRecord(inp, j) /\ inp[j].stream = s}}

\* C9: every row this run appends to the file of a stream with a fixed_headers
\* entry F is either F itself (a header row, first, and only in a file that
\* started empty) or the F-columns of one of the stream's records; a stream
\* without an entry takes its header list from its file or from its records.
C9_FixedHeadersOverride ==
    \A s \in Streams :
        LET p == LocalPath(destination_path, Filename(s))
            n0 == Len(files0[p].rows)
        IN  IF HasFixedHeaders(s)
            THEN \A k \in (n0 + 1)..Len(files[p].rows) :
                    \/ /\ k = 1
                       /\ files[p].rows[k] = fixed_headers.dict[s]
                    \/ /\ k > 1 \/ n0 > 0
                       /\ \E r \in RecordsOf(input, s) :
                             IsRowFor(files[p].rows[k], fixed_headers.dict[s], r)
            ELSE \A i \in 1..Len(written) :
                    written[i].stream = s =>
                       \/ /\ files0[p].rows # << >>
                          /\ written[i].fieldnames = files0[p].rows[1]
                       \/ \E r \in RecordsOf(input, s) :
                             written[i].fieldnames = [c \in 1..Len(r) |-> r[c][1]]

\* a record was appended under fixed headers to a file that had its own header
C9_Witness ==
    /\ HasFixedHeaders("s")
    /\ files0[LocalPath(destination_path, Filename("s"))] = WithHeader
    /\ Len(files[LocalPath(destination_path, Filename("s"))].rows) = 3
    /\ \E i \in 1..Len(input) : IsRecord(input, i) /\ Len(input[i].record) = 2

-----------------------------------------------------------------------------
(* C10 *)

\* C10: a run that ended with a fatal error has written nothing to stdout;
\* only a run that completed normally has.
C10_NoCheckpointOnFatalError ==
    /\ (pc = "failed" \/ error # "") => stdout = << >>
    /\ stdout # << >> => (pc = "done" /\ error = "")

\* the transfer failed while a checkpoint was pending
C10_Witness ==
    /\ pc = "failed"
    /\ error = "TransferError"
    /\ state # None
    /\ IsState(input, Len(input))

-----------------------------------------------------------------------------
(* C11, C12 *)

FiveCredentials ==
    {sftp_host, sftp_username, sftp_password, sftp_public_key,
     sftp_public_key_format}

\* the run got past the message loop (it returned, or the transfer failed)
InputExhausted == pc \in {"return", "done"} \/ error = "TransferError"

\* C11 as stated: with one of the five credentials absent nothing touches the
\* network; with all five present the dispatcher runs once the input ends.
C11_TransferGating ==
    /\ (None \in FiveCredentials) => (net = << >> /\ remote = {})
    /\ (None \notin FiveCredentials /\ InputExhausted) => net # << >>

\* C11 amended: with one of the five credentials absent or empty nothing
\* touches the network; with all five present and non-empty the dispatcher
\* runs once the input ends.
C11_TransferGatingNonEmpty ==
    /\ (FiveCredentials \cap {None, ""} # {}) => (net = << >> /\ remote = {})
    /\ (FiveCredentials \cap {None, ""} = {} /\ InputExhausted) => net # << >>

\* a record was written and the run ended with only the key format missing
C11_Witness ==
    /\ pc = "done"
    /\ sftp_public_key_format = None
    /\ FiveCredentials \ {None} = {"x"}
    /\ written # << >>
    /\ net = << >>

\* C12 as stated: the dispatcher runs only if all six sftp options are present.
C12_SixOptionsRequired ==
    net # << >> => None \notin (FiveCredentials \cup {sftp_port})

\* C12 amended: the dispatcher runs only if the five credentials are present
\* and non-empty, and sftp_port plays no part: with the five set and
\* sftp_port omitted the dispatcher still runs once the input ends.
C12_FiveOptionsRequired ==
    /\ net # << >> => FiveCredentials \cap {None, ""} = {}
    /\ (InputExhausted /\ sftp_port = None /\ FiveCredentials = {"x"}) => net # << >>

\* the files were pushed by a run whose configuration has no sftp_port
C12_Witness ==
    /\ pc = "done"
    /\ sftp_port = None
    /\ remote # {}

-----------------------------------------------------------------------------
(* C13 *)

\* the files this run appended rows to
WrittenPaths == {written[i].path : i \in 1..Len(written)}

\* the local files sftp.put read and copied
CopiedLocalPaths ==
    {PutLocalPath(net[i].file) : i \in {j \in 1..Len(net) : net[j].op = "put" /\ net[j].ok}}

\* the session ran and none of its operations failed
TransferCompleted ==
    /\ net # << >>
    /\ \A i \in 1..Len(net) : net[i].ok

\* C13: when the transfer completes without failure, the local files it
\* copied are exactly the files this run appended rows to, whatever
\* destination_path is.
C13_ManifestMatchesFilesWritten ==
    TransferCompleted => CopiedLocalPaths = WrittenPaths

-----------------------------------------------------------------------------
(* C14 *)

\* C14: a session starts with connect and ends with client.close; an sftp
\* session that was opened is closed; after a failed operation nothing but
\* the closes is attempted; a failure ends the run with the transfer error
\* and a completed session does not; what was copied stays copied.
C14_TransferFailureHandling ==
    net # << >> =>
        /\ net[1].op = "connect"
        /\ net[Len(net)].op = "client.close"
        /\ \A i \in 1..Len(net) :
              (net[i].op = "open_sftp" /\ net[i].ok) =>
                  \E j \in (i + 1)..Len(net) : net[j].op = "sftp.close"
        /\ \A i \in 1..Len(net) :
              (~net[i].ok) =>
                  \A j \in (i + 1)..Len(net) : net[j].op \in {"sftp.close", "client.close"}
        /\ (\E i \in 1..Len(net) : ~net[i].ok) <=> (pc = "failed" /\ error = "TransferError")
        /\ remote = {net[i].file : i \in {j \in 1..Len(net) : net[j].op = "put" /\ net[j].ok}}

\* the second of two copies failed: the first file stays on the remote host
C14_Witness ==
    /\ pc = "failed"
    /\ Cardinality(remote) = 1
    /\ \E i \in 1..Len(net) : net[i].op = "put" /\ ~net[i].ok

-----------------------------------------------------------------------------
(* C15 *)

\* C15: the session starts only once the message loop is over, no line is
\* consumed after it; a checkpoint line exists only in a run that is done,
\* and, when transfer is configured, only after a session without failure.
C15_EndOfRunOrdering ==
    /\ [](net # << >> => pc # "loop")
    /\ [][net' # net => (pc = "loop" /\ pc' # "loop" /\ input' = input)]_vars
    /\ [][pc # "loop" => input' = input]_vars
    /\ [](stdout # << >> =>
             /\ pc = "done"
             /\ (FiveCredentials \cap {None, ""} = {}) => TransferCompleted)

\* a checkpoint was emitted after a record was pushed
C15_Witness ==
    /\ pc = "done"
    /\ stdout # << >>
    /\ remote # {}

-----------------------------------------------------------------------------
(* C18 *)

RecordCount(inp, s) ==
    Cardinality({i \in 1..Len(inp) : IsRecord(inp, i) /\ inp[i].stream = s})

\* C18: once a checkpoint line is emitted, every RECORD of the input has a row
\* in its stream's file and, if transfer is configured, every file written in
\* the run has been copied.
C18_CheckpointImpliesPersistence ==
    stdout # << >> =>
        /\ \A s \in Streams :
              LET p == LocalPath(destination_path, Filename(s))
              IN  Len(files[p].rows) - Len(files0[p].rows) >= RecordCount(input, s)
        /\ (FiveCredentials \cap {None, ""} = {}) => WrittenPaths \subseteq CopiedLocalPaths

-----------------------------------------------------------------------------
(* C16 *)

\* line i was handled without raising
Processed(i) ==
    ~(i = Len(input) /\ pc = "failed" /\ error # "TransferError")

LastSchemaIndex(s) ==
    CHOOSE j \in SchemaIndexes(input, Len(input) + 1, s) :
        \A k \in SchemaIndexes(input, Len(input) + 1, s) : k <= j

\* C16: a stream has registry entries iff a SCHEMA for it was read, and its
\* schema, validator and key properties are those of the latest SCHEMA for
\* it; every RECORD that was written satisfies the latest SCHEMA of its
\* stream that precedes it.
C16_SchemaReplacement ==
    /\ DOMAIN schemas = DOMAIN validators
    /\ DOMAIN schemas = DOMAIN key_properties
    /\ \A s \in Streams :
          IF SchemaIndexes(input, Len(input) + 1, s) = {}
          THEN s \notin DOMAIN schemas
          ELSE /\ s \in DOMAIN schemas
               /\ schemas[s] = input[LastSchemaIndex(s)].schema
               /\ validators[s] = [schema |-> input[LastSchemaIndex(s)].schema]
               /\ key_properties[s] = input[LastSchemaIndex(s)].key_properties
    /\ \A i \in 1..Len(input) :
          (IsRecord(input, i) /\ Processed(i)) =>
              /\ SchemaIndexes(input, i, input[i].stream) # {}
              /\ LatestSchema(input, i, input[i].stream).required
                    \subseteq {input[i].record[c][1] : c \in 1..Len(input[i].record)}

\* a stream was declared twice with different schemas, then a record written
C16_Witness ==
    /\ Len(input) = 3
    /\ pc = "loop"
    /\ IsSchemaFor(input, 1, "s")
    /\ IsSchemaFor(input, 2, "s")
    /\ input[1].schema # input[2].schema
    /\ IsRecord(input, 3)
    /\ input[3].stream = "s"

-----------------------------------------------------------------------------
(* C17 *)

\* the lines that are written records of stream s
WrittenRecordLines(s) ==
    {i \in 1..Len(input) : IsRecord(input, i) /\ input[i].stream = s /\ Processed(i)}

\* the k-th of them, in arrival order
NthRecordLine(s, k) ==
    CHOOSE i \in WrittenRecordLines(s) :
        Cardinality({j \in WrittenRecordLines(s) : j <= i}) = k

-----------------------------------------------------------------------------
(* C19 *)

IsOtherType(m) == m.type \notin {"RECORD", "STATE", "SCHEMA", "<malformed>"}

\* line k is a STATE and only SCHEMA or unrecognized messages follow it
OnlyFrameMessagesAfter(inp, k) ==
    /\ IsState(inp, k)
    /\ \A j \in (k + 1)..Len(inp) : inp[j].type = "SCHEMA" \/ IsOtherType(inp[j])

\* C19: a step that consumes a SCHEMA or an unrecognized message does not
\* fail and leaves the pending checkpoint, the headers, the manifest and the
\* files alone (an unrecognized message also the schema registry); a STATE
\* followed only by such messages is emitted when the run ends.
C19_FrameOfOtherMessages ==
    /\ [][ (Consumes /\ (input'[Len(input')].type = "SCHEMA"
                         \/ IsOtherType(input'[Len(input')]))) =>
              /\ pc' = "loop"
              /\ error' = error
              /\ UNCHANGED << state, headers, stream_2_filenames, files, written,
                              stdout, net, remote >>
              /\ IsOtherType(input'[Len(input')]) =>
                    UNCHANGED << schemas, validators, key_properties >> ]_vars
    /\ [](\A k \in 1..Len(input) :
             (pc = "done" /\ OnlyFrameMessagesAfter(input, k)) =>
                 /\ Len(stdout) = 1
                 /\ JsonLoads(stdout[1]) = JsonLoads(input[k].value))

====
